---- MODULE Spec2Model ----
(***************************************************************************)
(* lexicon-to-valibot: the compiler from lexicon documents to valibot      *)
(* validators (lexiconToValibot / xrpcToValibot), its reference resolver   *)
(* with the per-call cache, the converters, and the checking of values     *)
(* against the compiled validators (v.safeParse).                          *)
(*                                                                         *)
(* Strings are sequences of one-character strings, so startsWith,          *)
(* includes, split and template concatenation are computed as the code     *)
(* computes them.  Objects (values and schema entries) are sequences of    *)
(* key/value records in insertion order.                                   *)
(***************************************************************************)
EXTENDS Integers, Sequences, FiniteSets, TLC

\* The fields of the records below.  TLC keeps the fields of a record in the
\* order in which their names first occur in the module; the constructors
\* write their fields in this order, so no record is ever reordered.
Fields ==
    [alone |-> 0, b |-> 0, base |-> 0, blobFormat |-> 0, c |-> 0, cache |-> 0, call |-> 0,
     check |-> 0, checks |-> 0, cls |-> 0, const |-> 0, def |-> 0,
     defs |-> 0, depth |-> 0, description |-> 0, e |-> 0, entries |-> 0,
     entry |-> 0, enum |-> 0, err |-> 0, externalRefs |-> 0, f |-> 0, format |-> 0,
     frac |-> 0, how |-> 0, id |-> 0, input |-> 0, inst |-> 0, item |-> 0,
     items |-> 0, js |-> 0, k |-> 0, key |-> 0, lexicon |-> 0, lexiconId |-> 0,
     literal |-> 0, log |-> 0, maxLength |-> 0, maxd |-> 0, maximum |-> 0,
     message |-> 0, minLength |-> 0, minimum |-> 0, n |-> 0, name |-> 0,
     nextId |-> 0, nullable |-> 0, ok |-> 0, options |-> 0, output |-> 0,
     parameters |-> 0, parses |-> 0, part |-> 0, prop |-> 0, properties |-> 0,
     record |-> 0, ref |-> 0, refs |-> 0, required |-> 0, res |-> 0,
     result |-> 0, returned |-> 0, s |-> 0, schema |-> 0, src |-> 0, st |-> 0, t |-> 0,
     type |-> 0, v |-> 0, val |-> 0, validators |-> 0, value |-> 0,
     wrapped |-> 0]


\* How many values are checked against the validators of one compilation.
MaxParses == 2
\* Depth of nested calls at which the engine raises RangeError (stack overflow).
StackLimit == 24

Max(a, b) == IF a >= b THEN a ELSE b

\* ------------------------------------------------------------------ strings

HASH == "#"
MAIN == <<"m", "a", "i", "n">>
TYPEKEY == <<"$", "t", "y", "p", "e">>

startsWith(s, c) == Len(s) > 0 /\ s[1] = c

includes(s, c) == \E i \in 1..Len(s) : s[i] = c

indexOf(s, c) == CHOOSE i \in 1..Len(s) : s[i] = c /\ \A j \in 1..(i - 1) : s[j] # c

RECURSIVE split(_, _)
split(s, c) ==
    IF ~includes(s, c) THEN <<s>>
    ELSE LET i == indexOf(s, c)
         IN <<SubSeq(s, 1, i - 1)>> \o split(SubSeq(s, i + 1, Len(s)), c)

\* ------------------------------------------------------------------- values
\* The JavaScript values handed to v.safeParse.

NullV == [t |-> "null"]
StrV(s) == [s |-> s, t |-> "string"]
NumV(n) == [frac |-> FALSE, n |-> n, t |-> "number"]
FracV(n) == [frac |-> TRUE, n |-> n, t |-> "number"]
BoolV(b) == [b |-> b, t |-> "boolean"]
ObjV(fields) == [cls |-> "Object", f |-> fields, t |-> "object"]
InstV(cls, fields) == [cls |-> cls, f |-> fields, t |-> "object"]
ArrV(elems) == [e |-> elems, t |-> "array"]
Field(key, val) == [key |-> key, val |-> val]

\* typeof value === "object" && value !== null
isObjectLike(value) == value.t \in {"object", "array"}

fieldsOf(value) == IF value.t = "object" THEN value.f ELSE <<>>

\* key in input
hasKey(value, key) == \E i \in 1..Len(fieldsOf(value)) : fieldsOf(value)[i].key = key

\* input[key]
getKey(value, key) ==
    LET fs == fieldsOf(value)
    IN fs[CHOOSE i \in 1..Len(fs) : fs[i].key = key].val

isStringAt(value, key) == hasKey(value, key) /\ getKey(value, key).t = "string"
isNumberAt(value, key) == hasKey(value, key) /\ getKey(value, key).t = "number"

\* ------------------------------------------------------------- schema nodes
\* A def or nested schema of a lexicon document.  js is the JavaScript typeof
\* of the node; an optional field of the node is a field the record lacks.

has(node, field) == field \in DOMAIN node
Prop(key, prop) == [key |-> key, prop |-> prop]

NotAnObject == [js |-> "string"]
LexBoolean == [js |-> "object", type |-> "boolean"]
LexInteger == [js |-> "object", type |-> "integer"]
LexString == [js |-> "object", type |-> "string"]
LexUnknown == [js |-> "object", type |-> "unknown"]
LexBytes == [js |-> "object", type |-> "bytes"]
LexCidLink == [js |-> "object", type |-> "cid-link"]
LexBlob == [js |-> "object", type |-> "blob"]
LexToken == [js |-> "object", type |-> "token"]
LexArray(items) == [items |-> items, js |-> "object", type |-> "array"]
LexObject(properties, required, nullable) ==
    [js |-> "object", nullable |-> nullable, properties |-> properties,
     required |-> required, type |-> "object"]
LexObjectNoProps == [js |-> "object", type |-> "object"]
LexRef(ref) == [js |-> "object", ref |-> ref, type |-> "ref"]
LexRefUnion(refs) == [js |-> "object", refs |-> refs, type |-> "union"]
LexRecord(record) == [js |-> "object", record |-> record, type |-> "record"]
LexParams(properties, required) ==
    [js |-> "object", properties |-> properties, required |-> required, type |-> "params"]
Body(schema) == [js |-> "object", schema |-> schema]
BodyNoSchema == [js |-> "object"]

\* --------------------------------------------------------------- validators
\* The schema objects valibot's builders return.

VString == [k |-> "string"]
VNumber == [k |-> "number"]
VBoolean == [k |-> "boolean"]
VUnknown == [k |-> "unknown"]
VNever == [k |-> "never"]
VLiteral(value) == [k |-> "literal", literal |-> value]
VPicklist(options) == [k |-> "picklist", options |-> options]
VObject(entries) == [entries |-> entries, k |-> "object"]
VArray(item) == [item |-> item, k |-> "array"]
VOptional(wrapped) == [k |-> "optional", wrapped |-> wrapped]
VNullable(wrapped) == [k |-> "nullable", wrapped |-> wrapped]
VUnion(options) == [k |-> "union", options |-> options]
\* v.lazy(() => ctx.resolveRef(ref)): the getter is the resolver applied to ref
VLazy(ref) == [k |-> "lazy", ref |-> ref]
VCustom(check) == [check |-> check, k |-> "custom"]
VInstance(cls) == [cls |-> cls, k |-> "instance"]
VPipe(base, checks) == [base |-> base, checks |-> checks, k |-> "pipe"]
Entry(key, schema) == [key |-> key, schema |-> schema]

CInteger == [c |-> "integer"]
CMinValue(n) == [c |-> "minValue", n |-> n]
CMaxValue(n) == [c |-> "maxValue", n |-> n]
CMinLength(n) == [c |-> "minLength", n |-> n]
CMaxLength(n) == [c |-> "maxLength", n |-> n]
CFormat(format) == [c |-> "format", format |-> format]
CBytesLength(schema) == [c |-> "bytesLength", schema |-> schema]

\* --------------------------------------------------- converters/primitives

convertBoolean(schema) ==
    IF has(schema, "const") THEN VLiteral(BoolV(schema.const)) ELSE VBoolean

convertInteger(schema) ==
    LET checks == <<CInteger>>
                  \o (IF has(schema, "minimum") THEN <<CMinValue(schema.minimum)>> ELSE <<>>)
                  \o (IF has(schema, "maximum") THEN <<CMaxValue(schema.maximum)>> ELSE <<>>)
    IN IF has(schema, "enum") /\ Len(schema.enum) > 0
       THEN VPicklist([i \in 1..Len(schema.enum) |-> NumV(schema.enum[i])])
       ELSE IF has(schema, "const") THEN VLiteral(NumV(schema.const))
       ELSE VPipe(VNumber, checks)

\* the formats the switch of convertString has a case for
StringFormats ==
    {"datetime", "uri", "at-uri", "did", "handle", "nsid", "cid", "tid",
     "record-key", "language", "at-identifier"}

convertString(schema) ==
    LET lengths == (IF has(schema, "minLength") THEN <<CMinLength(schema.minLength)>> ELSE <<>>)
                   \o (IF has(schema, "maxLength") THEN <<CMaxLength(schema.maxLength)>> ELSE <<>>)
        checks == lengths
                  \o (IF has(schema, "format") /\ schema.format \in StringFormats
                      THEN <<CFormat(schema.format)>> ELSE <<>>)
    IN IF has(schema, "enum") /\ Len(schema.enum) > 0
       THEN VPicklist([i \in 1..Len(schema.enum) |-> StrV(schema.enum[i])])
       ELSE IF has(schema, "const") THEN VLiteral(StrV(schema.const))
       ELSE IF Len(checks) = 0 THEN VString
       ELSE VPipe(VString, checks)

convertUnknown(schema) == VUnknown

convertBytes(schema) ==
    IF ~has(schema, "minLength") /\ ~has(schema, "maxLength")
    THEN VInstance("Uint8Array")
    ELSE VPipe(VInstance("Uint8Array"), <<CBytesLength(schema)>>)

\* ------------------------------------------------------ converters/atproto

isWireBlobRef(value) ==
    /\ isObjectLike(value)
    /\ isStringAt(value, TYPEKEY)
    /\ getKey(value, TYPEKEY).s = <<"b", "l", "o", "b">>
    /\ hasKey(value, <<"r", "e", "f">>)
    /\ isObjectLike(getKey(value, <<"r", "e", "f">>))
    /\ isStringAt(getKey(value, <<"r", "e", "f">>), <<"$", "l", "i", "n", "k">>)
    /\ isStringAt(value, <<"m", "i", "m", "e", "T", "y", "p", "e">>)
    /\ isNumberAt(value, <<"s", "i", "z", "e">>)

\* isSdkBlobRef by the fields of the value instead of its class
isSdkBlobRefStructural(value) ==
    /\ isObjectLike(value)
    /\ hasKey(value, <<"r", "e", "f">>)
    /\ isObjectLike(getKey(value, <<"r", "e", "f">>))
    /\ isStringAt(value, <<"m", "i", "m", "e", "T", "y", "p", "e">>)
    /\ isNumberAt(value, <<"s", "i", "z", "e">>)

\* value instanceof BlobRef
isSdkBlobRef(value) == value.t = "object" /\ value.cls = "BlobRef"

isUntypedBlobRef(value) ==
    /\ isObjectLike(value)
    /\ isStringAt(value, <<"c", "i", "d">>)
    /\ isStringAt(value, <<"m", "i", "m", "e", "T", "y", "p", "e">>)

blobSdkSchema == VCustom("blobSdk")
blobWireSchema == VCustom("blobWire")

\* convertBlob without the format
convertBlobSdkOnly(schema, format) == blobSdkSchema

convertBlob(schema, format) == IF format = "sdk" THEN blobSdkSchema ELSE blobWireSchema

cidLinkSchema == VObject(<<Entry(<<"$", "l", "i", "n", "k">>, VString)>>)

convertCidLink(schema) == cidLinkSchema

convertToken(schema) == VString

\* ------------------------------------------------- the resolver's heap state
\* st is what a compilation's closures share and mutate:
\*   cache     the Map of createRefResolver, a set of [key, inst]
\*   nextId    the identity the next newly built validator object gets
\*   log       the console.warn calls made so far, each the ref it names
\*   returned  every (normalized key, identity) a resolver call has returned
\*   maxd      the deepest nesting of convertType / resolveRef / run calls
\* cx is the ConverterContext: [lexiconId, defs, externalRefs, blobFormat].

Inst(id, schema) == [id |-> id, schema |-> schema]
FreshId(n) == [n |-> n, src |-> "alloc"]
ModuleId(name) == [n |-> 0, src |-> name]

EmptyState == [cache |-> {}, log |-> <<>>, maxd |-> 0, nextId |-> 1, returned |-> {}]

cacheHas(cache, key) == \E e \in cache : e.key = key
cacheGet(cache, key) == (CHOOSE e \in cache : e.key = key).inst
\* a cache of one entry: set() drops what was stored before
cacheSetOnly(cache, key, inst) == {[inst |-> inst, key |-> key]}
\* a cache that forgets: set() stores nothing
cacheSetNothing(cache, key, inst) == cache
cacheSet(cache, key, inst) == {e \in cache : e.key # key} \cup {[inst |-> inst, key |-> key]}

\* externalRefs[ref] (truthy)
extHas(externalRefs, ref) == \E e \in externalRefs : e.ref = ref
extGet(externalRefs, ref) == (CHOOSE e \in externalRefs : e.ref = ref).inst

\* defs[defName]
hasDef(defs, name) == \E i \in 1..Len(defs) : defs[i].name = name
getDef(defs, name) == defs[CHOOSE i \in 1..Len(defs) : defs[i].name = name].def

\* The object a builder call returns: a new object, except for the
\* module-level constants blobSdkSchema, blobWireSchema and cidLinkSchema.
newInstance(schema, st) ==
    IF schema = blobSdkSchema THEN Inst(ModuleId("blobSdkSchema"), schema)
    ELSE IF schema = blobWireSchema THEN Inst(ModuleId("blobWireSchema"), schema)
    ELSE IF schema = cidLinkSchema THEN Inst(ModuleId("cidLinkSchema"), schema)
    ELSE Inst(FreshId(st.nextId), schema)

Built(v, st) == [err |-> "", ok |-> TRUE, st |-> st, v |-> v]
Thrown(err, st) == [err |-> err, ok |-> FALSE, st |-> st, v |-> VNever]

deeper(st, d) == [st EXCEPT !.maxd = Max(@, d)]

RECURSIVE convertType(_, _, _, _)
RECURSIVE resolveRef(_, _, _, _)
RECURSIVE convertProperties(_, _, _, _, _, _, _, _)
RECURSIVE run(_, _, _, _, _)

\* ------------------------------------------------------ converters/complex

convertArray(schema, cx, st, d) ==
    LET items == convertType(schema.items, cx, st, d + 1)
        checks == (IF has(schema, "minLength") THEN <<CMinLength(schema.minLength)>> ELSE <<>>)
                  \o (IF has(schema, "maxLength") THEN <<CMaxLength(schema.maxLength)>> ELSE <<>>)
    IN IF ~items.ok THEN items
       ELSE IF Len(checks) = 0 THEN Built(VArray(items.v), items.st)
       ELSE Built(VPipe(VArray(items.v), checks), items.st)

\* a composer without the nullable wrap
wrapPropertyNotNullable(propSchema, key, requiredSet, nullableSet) ==
    IF key \notin requiredSet THEN VOptional(propSchema) ELSE propSchema

\* the nullable wrap, then the optional wrap, of one property's validator
wrapProperty(propSchema, key, requiredSet, nullableSet) ==
    LET n == IF key \in nullableSet THEN VNullable(propSchema) ELSE propSchema
    IN IF key \notin requiredSet THEN VOptional(n) ELSE n

\* the loop over Object.entries(schema.properties), from entry i on
convertProperties(props, i, requiredSet, nullableSet, cx, st, d, acc) ==
    IF i > Len(props) THEN Built(acc, st)
    ELSE LET c == convertType(props[i].prop, cx, st, d + 1)
         IN IF ~c.ok THEN c
            ELSE convertProperties(props, i + 1, requiredSet, nullableSet, cx, c.st, d,
                     Append(acc, Entry(props[i].key,
                         wrapProperty(c.v, props[i].key, requiredSet, nullableSet))))

convertObject(schema, cx, st, d) ==
    LET requiredSet == IF has(schema, "required") THEN schema.required ELSE {}
        nullableSet == IF has(schema, "nullable") THEN schema.nullable ELSE {}
        props == IF has(schema, "properties") THEN schema.properties ELSE <<>>
        c == convertProperties(props, 1, requiredSet, nullableSet, cx, st, d, <<>>)
    IN IF ~c.ok THEN c ELSE Built(VObject(c.v), c.st)

convertRef(schema, cx, st, d) == Built(VLazy(schema.ref), st)

\* a union converter that resolves its first branch while the validators are
\* constructed
convertUnionEager(schema, cx, st, d) ==
    IF Len(schema.refs) = 0 THEN Built(VNever, st)
    ELSE LET g == resolveRef(schema.refs[1], cx, st, d + 1)
         IN IF ~g.ok THEN Thrown(g.err, g.st)
            ELSE Built(VUnion(<<g.inst.schema>>
                              \o [i \in 1..(Len(schema.refs) - 1) |-> VLazy(schema.refs[i + 1])]),
                       g.st)

\* a union converter that keeps the first two branches only
convertUnionFirstTwo(schema, cx, st, d) ==
    IF Len(schema.refs) = 0 THEN Built(VNever, st)
    ELSE IF Len(schema.refs) = 1 THEN Built(VLazy(schema.refs[1]), st)
    ELSE Built(VUnion(<<VLazy(schema.refs[1]), VLazy(schema.refs[2])>>), st)

\* a union converter that treats one ref as it treats none
convertUnionNoSingle(schema, cx, st, d) ==
    IF Len(schema.refs) <= 1 THEN Built(VNever, st)
    ELSE Built(VUnion([i \in 1..Len(schema.refs) |-> VLazy(schema.refs[i])]), st)

convertUnion(schema, cx, st, d) ==
    IF Len(schema.refs) = 0 THEN Built(VNever, st)
    ELSE IF Len(schema.refs) = 1 THEN Built(VLazy(schema.refs[1]), st)
    ELSE Built(VUnion([i \in 1..Len(schema.refs) |-> VLazy(schema.refs[i])]), st)

\* ------------------------------------------------------------------- index

convertType(schema, cx, st0, d) ==
    LET st == deeper(st0, d)
    IN IF d > StackLimit THEN Thrown("RangeError", st)
       ELSE IF schema.js # "object" THEN Thrown("Invalid schema", st)
       ELSE IF ~has(schema, "type") THEN Thrown("Unknown schema type", st)
       ELSE CASE schema.type = "boolean" -> Built(convertBoolean(schema), st)
              [] schema.type = "integer" -> Built(convertInteger(schema), st)
              [] schema.type = "string" -> Built(convertString(schema), st)
              [] schema.type = "unknown" -> Built(convertUnknown(schema), st)
              [] schema.type = "bytes" -> Built(convertBytes(schema), st)
              [] schema.type = "cid-link" -> Built(convertCidLink(schema), st)
              [] schema.type = "blob" -> Built(convertBlob(schema, cx.blobFormat), st)
              [] schema.type = "token" -> Built(convertToken(schema), st)
              [] schema.type = "array" -> convertArray(schema, cx, st, d)
              [] schema.type = "object" -> convertObject(schema, cx, st, d)
              [] schema.type = "ref" -> convertRef(schema, cx, st, d)
              [] schema.type = "union" -> convertUnion(schema, cx, st, d)
              [] schema.type = "record" -> convertObject(schema.record, cx, st, d)
              [] OTHER -> Thrown("Unknown schema type", st)

\* isXrpcDef without the subscription kind
isXrpcDefNoSubscription(schema) ==
    /\ schema.js = "object"
    /\ has(schema, "type")
    /\ schema.type \in {"query", "procedure"}

isXrpcDef(schema) ==
    /\ schema.js = "object"
    /\ has(schema, "type")
    /\ schema.type \in {"query", "procedure", "subscription"}

\* isRecordDef that also holds of object defs
isRecordDefOrObject(schema) ==
    schema.js = "object" /\ has(schema, "type") /\ schema.type \in {"record", "object"}

isRecordDef(schema) == schema.js = "object" /\ has(schema, "type") /\ schema.type = "record"

\* "#name" is local, "ns" is "ns#main", "ns#name" is kept
normalizeRef(ref, lexiconId) ==
    IF startsWith(ref, HASH) THEN lexiconId \o ref
    ELSE IF ~includes(ref, HASH) THEN ref \o <<HASH>> \o MAIN
    ELSE ref

\* const [nsid, defName] = resolvedRef.includes("#") ? resolvedRef.split("#") : [resolvedRef, "main"]
parseRef(resolvedRef) ==
    IF includes(resolvedRef, HASH) THEN split(resolvedRef, HASH) ELSE <<resolvedRef, MAIN>>

\* nsid !== lexiconId: the ref names a def of another document
isExternal(nsid, lexiconId) == nsid # lexiconId

\* console.warn(`External ref not resolved: ${ref} ...`)
warn(log, ref) == Append(log, ref)

\* how is the branch of the resolver that returned: "cache", "registry",
\* "fallback" (the v.unknown() of an unresolved external ref) or "local"
Resolved(inst, key, how, st) ==
    [err |-> "", inst |-> inst, ok |-> TRUE,
     st |-> [st EXCEPT !.returned = @ \cup {[how |-> how, id |-> inst.id, key |-> key]}]]
NotResolved(err, st) == [err |-> err, inst |-> Inst(FreshId(0), VNever), ok |-> FALSE, st |-> st]

\* a resolver that looks among the document's defs before the registry
resolveRefLocalFirst(ref, cx, st0, d) ==
    LET st == deeper(st0, d)
        resolvedRef == normalizeRef(ref, cx.lexiconId)
        nsid == parseRef(resolvedRef)[1]
        defName == parseRef(resolvedRef)[2]
    IN IF d > StackLimit THEN NotResolved("RangeError", st)
       ELSE IF cacheHas(st.cache, resolvedRef)
       THEN Resolved(cacheGet(st.cache, resolvedRef), resolvedRef, "cache", st)
       ELSE IF ~isExternal(nsid, cx.lexiconId) /\ hasDef(cx.defs, defName)
       THEN LET c == convertType(getDef(cx.defs, defName), cx, st, d + 1)
                inst == newInstance(c.v, c.st)
            IN IF ~c.ok THEN NotResolved(c.err, c.st)
               ELSE Resolved(inst, resolvedRef, "local",
                        [c.st EXCEPT !.cache = cacheSet(@, resolvedRef, inst),
                                     !.nextId = @ + 1])
       ELSE IF extHas(cx.externalRefs, ref)
       THEN Resolved(extGet(cx.externalRefs, ref), resolvedRef, "registry",
                [st EXCEPT !.cache = cacheSet(@, resolvedRef, extGet(cx.externalRefs, ref))])
       ELSE IF extHas(cx.externalRefs, resolvedRef)
       THEN Resolved(extGet(cx.externalRefs, resolvedRef), resolvedRef, "registry",
                [st EXCEPT !.cache = cacheSet(@, resolvedRef, extGet(cx.externalRefs, resolvedRef))])
       ELSE IF isExternal(nsid, cx.lexiconId)
       THEN Resolved(Inst(FreshId(st.nextId), VUnknown), resolvedRef, "fallback",
                [st EXCEPT !.log = warn(@, ref), !.nextId = @ + 1])
       ELSE NotResolved("Ref not found", st)

\* the closure createRefResolver returns, called with ref
resolveRef(ref, cx, st0, d) ==
    LET st == deeper(st0, d)
        resolvedRef == normalizeRef(ref, cx.lexiconId)
        nsid == parseRef(resolvedRef)[1]
        defName == parseRef(resolvedRef)[2]
    IN IF d > StackLimit THEN NotResolved("RangeError", st)
       ELSE IF cacheHas(st.cache, resolvedRef)
       THEN Resolved(cacheGet(st.cache, resolvedRef), resolvedRef, "cache", st)
       ELSE IF extHas(cx.externalRefs, ref)
       THEN Resolved(extGet(cx.externalRefs, ref), resolvedRef, "registry",
                [st EXCEPT !.cache = cacheSet(@, resolvedRef, extGet(cx.externalRefs, ref))])
       ELSE IF extHas(cx.externalRefs, resolvedRef)
       THEN Resolved(extGet(cx.externalRefs, resolvedRef), resolvedRef, "registry",
                [st EXCEPT !.cache = cacheSet(@, resolvedRef, extGet(cx.externalRefs, resolvedRef))])
       ELSE IF isExternal(nsid, cx.lexiconId)
       THEN Resolved(Inst(FreshId(st.nextId), VUnknown), resolvedRef, "fallback",
                [st EXCEPT !.log = warn(@, ref), !.nextId = @ + 1])
       ELSE IF ~hasDef(cx.defs, defName)
       THEN NotResolved("Ref not found", st)
       ELSE LET c == convertType(getDef(cx.defs, defName), cx, st, d + 1)
                inst == newInstance(c.v, c.st)
            IN IF ~c.ok THEN NotResolved(c.err, c.st)
               ELSE Resolved(inst, resolvedRef, "local",
                        [c.st EXCEPT !.cache = cacheSet(@, resolvedRef, inst),
                                     !.nextId = @ + 1])

\* ------------------------------------------- checking a value (v.safeParse)
\* What valibot 1.x does with the schema objects built above.  A check ends
\* "ok" (success), "fail" (issues) or "throw" (an exception leaves safeParse:
\* a getter of v.lazy threw, or the call stack overflowed).

Outcome(res, err, st) == [err |-> err, res |-> res, st |-> st]

Lower ==
    {"a", "b", "c", "d", "e", "f", "g", "h", "i", "j", "k", "l", "m", "n", "o", "p",
     "q", "r", "s", "t", "u", "v", "w", "x", "y", "z"}
Upper ==
    {"A", "B", "C", "D", "E", "F", "G", "H", "I", "J", "K", "L", "M", "N", "O", "P",
     "Q", "R", "S", "T", "U", "V", "W", "X", "Y", "Z"}
Digit == {"0", "1", "2", "3", "4", "5", "6", "7", "8", "9"}

allIn(s, class) == \A i \in 1..Len(s) : s[i] \in class

\* the regular expressions of convertString whose language is a character
\* class; the other formats accept no string of the model's values
formatMatches(format, s) ==
    CASE format = "cid" ->
             Len(s) > 0 /\ allIn(s, Lower \cup Upper \cup Digit \cup {"+", "/", "="})
      [] format = "record-key" ->
             Len(s) > 0 /\ allIn(s, Lower \cup Upper \cup Digit \cup {".", "_", ":", "~", "-"})
      [] format = "tid" ->
             Len(s) = 13 /\ allIn(s, Lower \cup {"2", "3", "4", "5", "6", "7"})
      [] OTHER -> FALSE

checkOk(check, value) ==
    CASE check.c = "integer" -> ~value.frac
      [] check.c = "minValue" -> value.n >= check.n
      [] check.c = "maxValue" -> IF value.frac THEN value.n < check.n ELSE value.n <= check.n
      [] check.c = "minLength" ->
             (IF value.t = "string" THEN Len(value.s) ELSE Len(value.e)) >= check.n
      [] check.c = "maxLength" ->
             (IF value.t = "string" THEN Len(value.s) ELSE Len(value.e)) <= check.n
      [] check.c = "format" -> formatMatches(check.format, value.s)
      [] check.c = "bytesLength" ->
             /\ has(check.schema, "minLength") => Len(value.f) >= check.schema.minLength
             /\ has(check.schema, "maxLength") => Len(value.f) <= check.schema.maxLength

sameValue(a, b) == a.t = b.t /\ a = b

RECURSIVE runEntries(_, _, _, _, _, _, _)
RECURSIVE runItems(_, _, _, _, _, _, _)
RECURSIVE runOptions(_, _, _, _, _, _)

\* v.object: every entry is checked, in the order of the entries; a missing
\* key is an issue unless the entry's schema is optional
runEntries(entries, i, value, cx, st, d, good) ==
    IF i > Len(entries) THEN Outcome(IF good THEN "ok" ELSE "fail", "", st)
    ELSE IF hasKey(value, entries[i].key)
    THEN LET r == run(entries[i].schema, getKey(value, entries[i].key), cx, st, d + 1)
         IN IF r.res = "throw" THEN r
            ELSE runEntries(entries, i + 1, value, cx, r.st, d, good /\ r.res = "ok")
    ELSE runEntries(entries, i + 1, value, cx, st, d,
                    good /\ entries[i].schema.k = "optional")

\* v.array: every item is checked
runItems(item, i, value, cx, st, d, good) ==
    IF i > Len(value.e) THEN Outcome(IF good THEN "ok" ELSE "fail", "", st)
    ELSE LET r == run(item, value.e[i], cx, st, d + 1)
         IN IF r.res = "throw" THEN r
            ELSE runItems(item, i + 1, value, cx, r.st, d, good /\ r.res = "ok")

\* v.union: the options are tried in order and the first that succeeds ends it
runOptions(options, i, value, cx, st, d) ==
    IF i > Len(options) THEN Outcome("fail", "", st)
    ELSE LET r == run(options[i], value, cx, st, d + 1)
         IN IF r.res \in {"throw", "ok"} THEN r
            ELSE runOptions(options, i + 1, value, cx, r.st, d)

\* v.lazy: the getter resolves the ref, the schema it returns checks the value
runLazy(schema, value, cx, st, d) ==
    LET g == resolveRef(schema.ref, cx, st, d + 1)
    IN IF ~g.ok THEN Outcome("throw", g.err, g.st)
       ELSE run(g.inst.schema, value, cx, g.st, d + 1)

runPipe(schema, value, cx, st, d) ==
    LET r == run(schema.base, value, cx, st, d + 1)
    IN IF r.res # "ok" THEN r
       ELSE Outcome(IF \A i \in 1..Len(schema.checks) : checkOk(schema.checks[i], value)
                    THEN "ok" ELSE "fail", "", r.st)

runCustom(schema, value) ==
    IF schema.check = "blobSdk" THEN isSdkBlobRef(value) \/ isUntypedBlobRef(value)
    ELSE isWireBlobRef(value) \/ isUntypedBlobRef(value)

run(schema, value, cx, st0, d) ==
    LET st == deeper(st0, d)
        verdict(b) == Outcome(IF b THEN "ok" ELSE "fail", "", st)
    IN IF d > StackLimit THEN Outcome("throw", "RangeError", st)
       ELSE CASE schema.k = "string" -> verdict(value.t = "string")
              [] schema.k = "number" -> verdict(value.t = "number")
              [] schema.k = "boolean" -> verdict(value.t = "boolean")
              [] schema.k = "unknown" -> verdict(TRUE)
              [] schema.k = "never" -> verdict(FALSE)
              [] schema.k = "literal" -> verdict(sameValue(value, schema.literal))
              [] schema.k = "picklist" ->
                     verdict(\E i \in 1..Len(schema.options) : sameValue(value, schema.options[i]))
              [] schema.k = "instance" -> verdict(value.t = "object" /\ value.cls = schema.cls)
              [] schema.k = "custom" -> verdict(runCustom(schema, value))
              [] schema.k = "optional" -> run(schema.wrapped, value, cx, st, d + 1)
              [] schema.k = "nullable" ->
                     IF value.t = "null" THEN verdict(TRUE)
                     ELSE run(schema.wrapped, value, cx, st, d + 1)
              [] schema.k = "object" ->
                     IF ~isObjectLike(value) THEN verdict(FALSE)
                     ELSE runEntries(schema.entries, 1, value, cx, st, d, TRUE)
              [] schema.k = "array" ->
                     IF value.t # "array" THEN verdict(FALSE)
                     ELSE runItems(schema.item, 1, value, cx, st, d, TRUE)
              [] schema.k = "union" -> runOptions(schema.options, 1, value, cx, st, d)
              [] schema.k = "lazy" -> runLazy(schema, value, cx, st, d)
              [] schema.k = "pipe" -> runPipe(schema, value, cx, st, d)

\* --------------------------------------------------------- converters/xrpc

\* convertParams with the nullable wrap of convertObject
convertParamsNullable(schema, cx, st, d) ==
    IF ~has(schema, "parameters") \/ ~has(schema.parameters, "properties")
    THEN Built(VObject(<<>>), st)
    ELSE LET requiredSet == IF has(schema.parameters, "required")
                            THEN schema.parameters.required ELSE {}
             nullableSet == IF has(schema.parameters, "nullable")
                            THEN schema.parameters.nullable ELSE {}
             c == convertProperties(schema.parameters.properties, 1, requiredSet, nullableSet,
                                    cx, st, d, <<>>)
         IN IF ~c.ok THEN c ELSE Built(VObject(c.v), c.st)

convertParams(schema, cx, st, d) ==
    IF ~has(schema, "parameters") \/ ~has(schema.parameters, "properties")
    THEN Built(VObject(<<>>), st)
    ELSE LET requiredSet == IF has(schema.parameters, "required")
                            THEN schema.parameters.required ELSE {}
             c == convertProperties(schema.parameters.properties, 1, requiredSet, {},
                                    cx, st, d, <<>>)
         IN IF ~c.ok THEN c ELSE Built(VObject(c.v), c.st)

\* convertBody with a validator that accepts nothing for an absent body
convertBodyNever(schema, body, cx, st, d) ==
    IF ~has(schema, body) \/ ~has(schema[body], "schema") THEN Built(VNever, st)
    ELSE convertType(schema[body].schema, cx, st, d + 1)

convertBody(schema, body, cx, st, d) ==
    IF ~has(schema, body) \/ ~has(schema[body], "schema") THEN Built(VUnknown, st)
    ELSE convertType(schema[body].schema, cx, st, d + 1)

\* the validators object of an endpoint: parameters first, then each body
RECURSIVE convertBodies(_, _, _, _, _, _, _)
convertBodies(schema, bodies, i, cx, st, d, acc) ==
    IF i > Len(bodies) THEN Built(acc, st)
    ELSE LET c == convertBody(schema, bodies[i], cx, st, d)
         IN IF ~c.ok THEN c
            ELSE convertBodies(schema, bodies, i + 1, cx, c.st, d,
                               Append(acc, Entry(bodies[i], c.v)))

convertEndpoint(schema, bodies, cx, st, d) ==
    LET p == convertParams(schema, cx, st, d)
    IN IF ~p.ok THEN p
       ELSE convertBodies(schema, bodies, 1, cx, p.st, d, <<Entry("parameters", p.v)>>)

convertQuery(schema, cx, st, d) == convertEndpoint(schema, <<"output">>, cx, st, d)
convertProcedure(schema, cx, st, d) == convertEndpoint(schema, <<"input", "output">>, cx, st, d)
convertSubscription(schema, cx, st, d) == convertEndpoint(schema, <<"message">>, cx, st, d)

convertXrpcDef(schema, cx, st, d) ==
    IF schema.js # "object" THEN Thrown("Invalid schema", st)
    ELSE IF ~has(schema, "type") THEN Thrown("Not an XRPC type", st)
    ELSE CASE schema.type = "query" -> convertQuery(schema, cx, st, d)
           [] schema.type = "procedure" -> convertProcedure(schema, cx, st, d)
           [] schema.type = "subscription" -> convertSubscription(schema, cx, st, d)
           [] OTHER -> Thrown("Not an XRPC type", st)

\* ------------------------------------------------------- the entry points

Context(lexicon, options) ==
    [blobFormat |-> options.format, defs |-> lexicon.defs,
     externalRefs |-> options.externalRefs, lexiconId |-> lexicon.id]

\* the $type a record def carries on the wire
recordTypeName(lexiconId, defName) ==
    IF defName = MAIN THEN lexiconId ELSE lexiconId \o <<HASH>> \o defName

\* v.object({ $type: v.literal($type), ...schema.entries })
wrapRecord(typeName, schema) ==
    LET entries == schema.entries
        own == {i \in 1..Len(entries) : entries[i].key = TYPEKEY}
    IN IF own = {}
       THEN VObject(<<Entry(TYPEKEY, VLiteral(StrV(typeName)))>> \o entries)
       ELSE VObject(<<entries[CHOOSE i \in own : TRUE]>>
                    \o SelectSeq(entries, LAMBDA e : e.key # TYPEKEY))

\* the loop of lexiconToValibot over Object.entries(lexicon.defs), from def i on
RECURSIVE compileDefs(_, _, _, _, _)
compileDefs(defs, i, cx, st, acc) ==
    IF i > Len(defs) THEN Built(acc, st)
    ELSE IF isXrpcDef(defs[i].def) THEN compileDefs(defs, i + 1, cx, st, acc)
    ELSE LET c == convertType(defs[i].def, cx, st, 1)
             schema == IF cx.blobFormat = "wire" /\ isRecordDef(defs[i].def)
                       THEN wrapRecord(recordTypeName(cx.lexiconId, defs[i].name), c.v)
                       ELSE c.v
         IN IF ~c.ok THEN c
            ELSE compileDefs(defs, i + 1, cx, c.st, Append(acc, Entry(defs[i].name, schema)))

lexiconToValibot(lexicon, options) ==
    compileDefs(lexicon.defs, 1, Context(lexicon, options), EmptyState, <<>>)

\* the loop of xrpcToValibot
RECURSIVE compileXrpcDefs(_, _, _, _, _)
compileXrpcDefs(defs, i, cx, st, acc) ==
    IF i > Len(defs) THEN Built(acc, st)
    ELSE IF ~isXrpcDef(defs[i].def) THEN compileXrpcDefs(defs, i + 1, cx, st, acc)
    ELSE LET c == convertXrpcDef(defs[i].def, cx, st, 1)
         IN IF ~c.ok THEN c
            ELSE compileXrpcDefs(defs, i + 1, cx, c.st,
                                 Append(acc, [key |-> defs[i].name, validators |-> c.v]))

xrpcToValibot(lexicon, options) ==
    compileXrpcDefs(lexicon.defs, 1, Context(lexicon, options), EmptyState, <<>>)

\* ------------------------------------------------------------ atproto-refs

strongRef == VObject(<<Entry(<<"u", "r", "i">>, VString), Entry(<<"c", "i", "d">>, VString)>>)
selfLabel == VObject(<<Entry(<<"v", "a", "l">>, VString)>>)
selfLabels == VObject(<<Entry(<<"v", "a", "l", "u", "e", "s">>, VArray(selfLabel))>>)

\* The namespaces are shortened: "o" for com.atproto.repo.strongRef and "l"
\* for com.atproto.label.defs, with the defs "s" (selfLabel) and "t" (selfLabels).
atprotoRefs ==
    {[inst |-> Inst(ModuleId("strongRef"), strongRef), ref |-> <<"o">>],
     [inst |-> Inst(ModuleId("strongRef"), strongRef), ref |-> <<"o", "#", "m", "a", "i", "n">>],
     [inst |-> Inst(ModuleId("selfLabel"), selfLabel), ref |-> <<"l", "#", "s">>],
     [inst |-> Inst(ModuleId("selfLabels"), selfLabels), ref |-> <<"l", "#", "t">>]}

\* a registry of the caller's that names the strong reference by its bare
\* namespace only
bareRefs == {[inst |-> Inst(ModuleId("strongRef"), strongRef), ref |-> <<"o">>]}

\* a registry of the caller's with entries under names the documents define
\* themselves ("#s" and "a#s", "a#n"), and with different validators under a
\* ref string and under its normalized key
shadowRefs ==
    {[inst |-> Inst(ModuleId("selfLabel"), selfLabel), ref |-> <<HASH, "s">>],
     [inst |-> Inst(ModuleId("strongRef"), strongRef), ref |-> <<"a", HASH, "s">>],
     [inst |-> Inst(ModuleId("selfLabels"), selfLabels), ref |-> <<"a", HASH, "n">>],
     [inst |-> Inst(ModuleId("selfLabel"), selfLabel), ref |-> <<"o">>],
     [inst |-> Inst(ModuleId("strongRef"), strongRef), ref |-> <<"o", HASH, "m", "a", "i", "n">>]}

\* ------------------------------------------------- documents and test values
\* The lexicon documents the entry points are called with.  Every document
\* has the id "a"; "o" and "l" are other namespaces.

Def(name, def) == [def |-> def, name |-> name]
Doc(description, defs) == [defs |-> defs, description |-> description, id |-> <<"a">>]

K(c) == <<c>>
LocalRef(c) == <<HASH, c>>
GONE == <<HASH, "g", "o", "n", "e">>
SELF == <<HASH>> \o MAIN

DocTable ==
    Doc("table", <<
        Def(MAIN, LexObject(
            <<Prop(K("r"), LexString), Prop(K("o"), LexString), Prop(K("n"), LexString),
              Prop(K("q"), LexString), Prop(K("u"), LexUnknown)>>,
            {K("r"), K("n"), K("u")}, {K("n"), K("q")})),
        Def(K("i"), LexObject(
            <<Prop(K("r"), LexInteger), Prop(K("q"), LexBoolean)>>, {K("r")}, {K("q")})),
        Def(K("e"), LexObjectNoProps)>>)

DocTree ==
    Doc("tree", <<
        Def(MAIN, LexObject(
            <<Prop(K("v"), LexString), Prop(K("x"), LexRef(SELF)),
              Prop(K("k"), LexArray(LexRef(SELF)))>>,
            {K("v")}, {}))>>)

DocDangling ==
    Doc("dangling", <<
        Def(MAIN, LexObject(<<Prop(K("p"), LexRef(GONE))>>, {}, {})),
        Def(K("d"), LexRef(GONE)),
        Def(K("c"), LexRefUnion(<<GONE>>)),
        Def(K("w"), LexRefUnion(<<LocalRef("s"), GONE>>)),
        Def(K("s"), LexString)>>)

DocCycle ==
    Doc("cycle", <<
        Def(MAIN, LexRef(SELF)),
        Def(K("x"), LexRef(LocalRef("y"))),
        Def(K("y"), LexRef(LocalRef("x"))),
        Def(K("u"), LexRefUnion(<<LocalRef("u"), LocalRef("s")>>)),
        Def(K("s"), LexString)>>)

DocExt ==
    Doc("ext", <<
        Def(MAIN, LexRef(<<"o", HASH, "t">>)),
        Def(K("e"), LexRef(<<"o">>)),
        Def(K("f"), LexObject(<<Prop(K("p"), LexRef(<<"o", HASH, "m", "a", "i", "n">>))>>,
                              {K("p")}, {})),
        Def(K("g"), LexRef(<<"o", HASH, "m", "a", "i", "n">>)),
        Def(K("l"), LexRef(<<"a", HASH, "s">>)),
        Def(K("s"), LexString)>>)

DocRecord ==
    Doc("record", <<
        Def(MAIN, LexRecord(LexObject(<<Prop(K("t"), LexString)>>, {K("t")}, {}))),
        Def(K("r"), LexRecord(LexObject(<<Prop(K("t"), LexString)>>, {}, {}))),
        Def(K("k"), LexRecord(LexObject(
            <<Prop(K("t"), LexString), Prop(TYPEKEY, LexString)>>, {}, {}))),
        Def(K("b"), LexObject(<<Prop(K("t"), LexString)>>, {K("t")}, {})),
        Def(K("p"), LexRef(SELF))>>)

DocUnion ==
    Doc("union", <<
        Def(K("z"), LexRefUnion(<<>>)),
        Def(K("o"), LexRefUnion(<<LocalRef("s")>>)),
        Def(K("r"), LexRef(LocalRef("s"))),
        Def(K("u"), LexRefUnion(<<LocalRef("s"), LocalRef("n")>>)),
        Def(K("t"), LexRefUnion(<<LocalRef("n"), LocalRef("b"), LocalRef("s")>>)),
        Def(K("s"), LexString),
        Def(K("n"), LexInteger),
        Def(K("b"), LexObject(<<Prop(K("t"), LexString)>>, {K("t")}, {}))>>)

DocXrpc ==
    Doc("xrpc", <<
        Def(MAIN, [js |-> "object",
                   output |-> Body(LexObject(<<Prop(K("t"), LexRef(LocalRef("s")))>>,
                                             {K("t")}, {})),
                   parameters |-> LexParams(
                       <<Prop(K("q"), LexString), Prop(K("l"), LexInteger)>>, {K("q")}),
                   type |-> "query"]),
        Def(K("p"), [input |-> Body(LexRef(LocalRef("s"))),
                     js |-> "object",
                     output |-> BodyNoSchema,
                     type |-> "procedure"]),
        Def(K("m"), [js |-> "object",
                     message |-> Body(LexRefUnion(<<LocalRef("s"), GONE>>)),
                     type |-> "subscription"]),
        Def(K("s"), LexString)>>)

\* integer schemas with every combination of const, enum and range the
\* branches of convertInteger tell apart
DocInteger ==
    Doc("integer", <<
        Def(K("i"), LexInteger),
        Def(K("c"), [const |-> 1, js |-> "object", type |-> "integer"]),
        Def(K("e"), [enum |-> <<2, 3>>, js |-> "object", type |-> "integer"]),
        Def(K("b"), [const |-> 2, enum |-> <<2, 3>>, js |-> "object", type |-> "integer"]),
        Def(K("r"), [js |-> "object", maximum |-> 5, minimum |-> 2, type |-> "integer"]),
        Def(K("l"), [js |-> "object", minimum |-> 3, type |-> "integer"]),
        Def(K("m"), [const |-> 7, js |-> "object", maximum |-> 5, minimum |-> 2,
                     type |-> "integer"]),
        Def(K("f"), [enum |-> <<1, 6>>, js |-> "object", maximum |-> 5, minimum |-> 2,
                     type |-> "integer"]),
        Def(K("z"), [enum |-> <<>>, js |-> "object", maximum |-> 5, type |-> "integer"])>>)

\* string schemas with every combination of const, enum, length and format
\* the branches of convertString tell apart
DocString ==
    Doc("string", <<
        Def(K("s"), LexString),
        Def(K("c"), [const |-> K("x"), js |-> "object", type |-> "string"]),
        Def(K("e"), [enum |-> <<K("x"), <<"x", "y">>>>, js |-> "object", type |-> "string"]),
        Def(K("b"), [const |-> K("x"), enum |-> <<K("x"), <<"x", "y">>>>, js |-> "object",
                     type |-> "string"]),
        Def(K("l"), [js |-> "object", maxLength |-> 3, minLength |-> 2, type |-> "string"]),
        Def(K("f"), [format |-> "cid", js |-> "object", type |-> "string"]),
        Def(K("g"), [format |-> "record-key", js |-> "object", maxLength |-> 2,
                     type |-> "string"]),
        Def(K("m"), [const |-> K("x"), format |-> "cid", js |-> "object", minLength |-> 2,
                     type |-> "string"]),
        Def(K("n"), [enum |-> <<<<"x", "~">>>>, format |-> "cid", js |-> "object",
                     maxLength |-> 1, type |-> "string"]),
        Def(K("z"), [enum |-> <<>>, js |-> "object", minLength |-> 2, type |-> "string"])>>)

\* an endpoint whose input refers to a def of a kind convertType has no case for
DocBadKind ==
    Doc("badkind", <<
        Def(MAIN, [input |-> Body(LexRef(LocalRef("b"))),
                   js |-> "object",
                   output |-> Body(LexString),
                   type |-> "procedure"]),
        Def(K("b"), [js |-> "object", type |-> "blorp"])>>)

\* nodes that are not objects, or have no type, nested in an endpoint and in
\* an array def
DocNotObject ==
    Doc("notobject", <<
        Def(MAIN, [js |-> "object",
                   output |-> Body(LexObject(<<Prop(K("p"), NotAnObject)>>, {}, {})),
                   type |-> "query"]),
        Def(K("o"), LexArray([js |-> "object"]))>>)

\* a blob def, and an object with a blob property
DocBlob ==
    Doc("blob", <<
        Def(MAIN, LexBlob),
        Def(K("o"), LexObject(<<Prop(K("b"), LexBlob)>>, {K("b")}, {}))>>)

\* endpoints with a parameters block that lists nullable parameters, with no
\* parameters block, and with a parameters block without properties
DocParams ==
    Doc("params", <<
        Def(MAIN, [js |-> "object",
                   parameters |->
                       [js |-> "object", nullable |-> {K("l"), K("n")},
                        properties |-> <<Prop(K("q"), LexString), Prop(K("l"), LexInteger),
                                         Prop(K("n"), LexString), Prop(K("u"), LexUnknown)>>,
                        required |-> {K("q"), K("n")}, type |-> "params"],
                   type |-> "query"]),
        Def(K("p"), [js |-> "object", type |-> "procedure"]),
        Def(K("e"), [js |-> "object",
                     parameters |-> [js |-> "object", type |-> "params"],
                     type |-> "subscription"])>>)

Docs ==
    {DocTable, DocTree, DocDangling, DocCycle, DocExt, DocRecord, DocUnion, DocXrpc,
     DocInteger, DocString, DocBadKind, DocNotObject, DocBlob, DocParams}

Formats == {"sdk", "wire"}
ExternalRefs == {{}, atprotoRefs, bareRefs, shadowRefs}
Options == [format : Formats, externalRefs : ExternalRefs]

X == StrV(K("x"))
Five == NumV(5)
Rec(t) == ObjV(<<Field(K("t"), X)>> \o t)
Typed(name) == <<Field(TYPEKEY, StrV(name))>>

REF == <<"r", "e", "f">>
LINK == <<"$", "l", "i", "n", "k">>
MIMETYPE == <<"m", "i", "m", "e", "T", "y", "p", "e">>
SIZE == <<"s", "i", "z", "e">>
CID == <<"c", "i", "d">>
BLOB == <<"b", "l", "o", "b">>

\* { $type: "blob", ref: { $link: "x" }, mimeType: "x", size: 5 }
WireBlob ==
    ObjV(<<Field(TYPEKEY, StrV(BLOB)), Field(REF, ObjV(<<Field(LINK, X)>>)),
           Field(MIMETYPE, X), Field(SIZE, Five)>>)
\* { cid: "x", mimeType: "x" }
UntypedBlob == ObjV(<<Field(CID, X), Field(MIMETYPE, X)>>)
\* { cid: "x", mimeType: "x", $type: "blob" }
UntypedBlobTyped == ObjV(<<Field(CID, X), Field(MIMETYPE, X), Field(TYPEKEY, StrV(BLOB))>>)
\* new BlobRef(cid, "x", 5)
SdkBlob ==
    InstV("BlobRef", <<Field(REF, InstV("CID", <<>>)), Field(MIMETYPE, X), Field(SIZE, Five),
                       Field(<<"o", "r", "i", "g", "i", "n", "a", "l">>, UntypedBlob)>>)
\* createMockBlobRef("x", "x", 5): the fields of a BlobRef on a plain object
MockBlob ==
    ObjV(<<Field(REF, ObjV(<<>>)), Field(MIMETYPE, X), Field(SIZE, Five),
           Field(<<"o", "r", "i", "g", "i", "n", "a", "l">>, UntypedBlob)>>)

BlobValues ==
    {WireBlob, UntypedBlob, UntypedBlobTyped, SdkBlob, MockBlob,
     ObjV(<<Field(MIMETYPE, X)>>),
     ObjV(<<Field(TYPEKEY, X), Field(REF, ObjV(<<Field(LINK, X)>>)),
            Field(MIMETYPE, X), Field(SIZE, Five)>>),
     ObjV(<<Field(TYPEKEY, StrV(BLOB)), Field(REF, ObjV(<<Field(LINK, X)>>)),
            Field(MIMETYPE, X)>>),
     ObjV(<<Field(TYPEKEY, StrV(BLOB)), Field(REF, ObjV(<<>>)),
            Field(MIMETYPE, X), Field(SIZE, Five)>>),
     ObjV(<<Field(TYPEKEY, StrV(BLOB)), Field(REF, X), Field(MIMETYPE, X), Field(SIZE, X)>>),
     ObjV(<<Field(CID, Five), Field(MIMETYPE, X)>>)}

\* the values checked against the validators compiled from a document
TestValues(lexicon) ==
      {NullV, X, Five, ObjV(<<>>)}
    \cup
      CASE lexicon.description = "table" ->
               {ObjV(<<Field(K("r"), X), Field(K("n"), NullV), Field(K("u"), NullV)>>),
                ObjV(<<Field(K("r"), Five), Field(K("q"), NullV)>>)}
        [] lexicon.description = "tree" ->
               {ObjV(<<Field(K("v"), X)>>),
                ObjV(<<Field(K("v"), X), Field(K("x"), ObjV(<<Field(K("v"), X)>>))>>),
                ObjV(<<Field(K("v"), X), Field(K("x"), ObjV(<<Field(K("v"), Five)>>))>>),
                ObjV(<<Field(K("v"), X),
                       Field(K("k"), ArrV(<<ObjV(<<Field(K("v"), X),
                           Field(K("x"), ObjV(<<Field(K("v"), X)>>))>>)>>))>>)}
        [] lexicon.description = "dangling" -> {ObjV(<<Field(K("p"), X)>>)}
        [] lexicon.description = "ext" ->
               {ObjV(<<Field(K("p"), ObjV(<<Field(<<"u", "r", "i">>, X),
                                             Field(<<"c", "i", "d">>, X)>>))>>),
                ObjV(<<Field(<<"u", "r", "i">>, X), Field(<<"c", "i", "d">>, X)>>)}
        [] lexicon.description = "record" ->
               {Rec(<<>>), Rec(Typed(<<"a">>)), Rec(Typed(<<"a", HASH, "r">>)),
                Rec(Typed(<<"a", HASH, "k">>)), Rec(Typed(K("x"))),
                ObjV(Typed(<<"a", HASH, "r">>))}
        [] lexicon.description = "union" -> {Rec(<<>>), BoolV(TRUE), FracV(1)}
        [] lexicon.description = "xrpc" ->
               {Rec(<<>>), ObjV(<<Field(K("q"), X)>>),
                ObjV(<<Field(K("q"), X), Field(K("l"), NullV)>>)}
        [] lexicon.description = "integer" ->
               {NumV(1), NumV(2), NumV(3), NumV(6), NumV(7), FracV(3)}
        [] lexicon.description = "string" ->
               {StrV(<<"x", "y">>), StrV(<<"x", "~">>), StrV(<<"x", "+">>),
                StrV(<<"w", "x", "y", "z">>), StrV(<<>>)}
        [] lexicon.description = "blob" ->
               BlobValues \cup {ObjV(<<Field(K("b"), bv)>>) : bv \in {WireBlob, SdkBlob, X}}
        [] lexicon.description = "params" ->
               {ObjV(<<Field(K("q"), X), Field(K("n"), X)>> \o more) :
                    more \in {<<>>, <<Field(K("l"), NullV)>>, <<Field(K("l"), Five)>>,
                              <<Field(K("l"), X)>>, <<Field(K("u"), NullV)>>}}
               \cup {ObjV(<<Field(K("q"), X), Field(K("n"), NullV)>>),
                      ObjV(<<Field(K("n"), X)>>),
                      ObjV(<<Field(K("q"), Five), Field(K("n"), X)>>)}
        [] OTHER -> {}

\* ------------------------------------------------------- the state machine

VARIABLES
    lexicon,     \* the document of the last entry-point call
    options,     \* its options, with the defaults filled in
    entry,       \* "none", "lexiconToValibot" or "xrpcToValibot"
    status,      \* "none", "returned" or "threw"
    error,       \* the message of the Error the call threw
    result,      \* the map the call returned, as entries in key order
    heap,        \* the state its closures share (cache, identities, warnings)
    buildDepth,  \* the deepest nesting of calls the entry-point call made
    parses,      \* how many values have been checked since the call
    lastParse,   \* the last check: def, part, value, outcome, error, depth
    maps,        \* the Map objects of live compilations; an address is an index
    calls,       \* the live compilations, when two are followed side by side
    lastCheck    \* the last check made with a validator of one of them

one == <<lexicon, options, entry, status, error, result, heap, buildDepth, parses, lastParse>>
side == <<maps, calls, lastCheck>>
vars == <<lexicon, options, entry, status, error, result, heap, buildDepth, parses, lastParse,
          maps, calls, lastCheck>>

NoParse == [depth |-> 0, err |-> "", name |-> <<>>, part |-> "", res |-> "none", value |-> NullV]
NoCheck == [alone |-> "none", call |-> 0, err |-> "", name |-> <<>>, part |-> "",
            res |-> "none", value |-> NullV]

Init ==
    /\ lexicon = DocTable
    /\ options = [externalRefs |-> {}, format |-> "sdk"]
    /\ entry = "none"
    /\ status = "none"
    /\ error = ""
    /\ result = <<>>
    /\ heap = EmptyState
    /\ buildDepth = 0
    /\ parses = 0
    /\ lastParse = NoParse
    /\ maps = <<>>
    /\ calls = <<>>
    /\ lastCheck = NoCheck

Called(name, doc, opts, c) ==
    /\ lexicon' = doc
    /\ options' = opts
    /\ entry' = name
    /\ status' = IF c.ok THEN "returned" ELSE "threw"
    /\ error' = c.err
    /\ result' = IF c.ok THEN c.v ELSE <<>>
    /\ heap' = [c.st EXCEPT !.maxd = 0]
    /\ buildDepth' = c.st.maxd
    /\ parses' = 0
    /\ lastParse' = NoParse
    /\ UNCHANGED side

\* a call lexiconToValibot(doc, opts)
CallLexiconToValibot ==
    \E doc \in Docs, opts \in Options :
        Called("lexiconToValibot", doc, opts, lexiconToValibot(doc, opts))

\* a call xrpcToValibot(doc, opts)
CallXrpcToValibot ==
    \E doc \in Docs, opts \in Options :
        Called("xrpcToValibot", doc, opts, xrpcToValibot(doc, opts))

Parsed(name, part, value, r) ==
    /\ heap' = [r.st EXCEPT !.maxd = 0]
    /\ parses' = parses + 1
    /\ lastParse' = [depth |-> r.st.maxd, err |-> r.err, name |-> name,
                     part |-> part, res |-> r.res, value |-> value]
    /\ UNCHANGED <<lexicon, options, entry, status, error, result, buildDepth>>
    /\ UNCHANGED side

\* v.safeParse(validators[name], value) on the map lexiconToValibot returned
SafeParse ==
    /\ entry = "lexiconToValibot"
    /\ status = "returned"
    /\ parses < MaxParses
    /\ \E i \in 1..Len(result), value \in TestValues(lexicon) :
           Parsed(result[i].key, "", value,
                  run(result[i].schema, value, Context(lexicon, options), heap, 1))

\* v.safeParse(validators[name][part], value) on the map xrpcToValibot returned
SafeParseXrpc ==
    /\ entry = "xrpcToValibot"
    /\ status = "returned"
    /\ parses < MaxParses
    /\ \E i \in 1..Len(result), value \in TestValues(lexicon) :
           \E j \in 1..Len(result[i].validators) :
               Parsed(result[i].key, result[i].validators[j].key, value,
                      run(result[i].validators[j].schema, value,
                          Context(lexicon, options), heap, 1))

Next == CallLexiconToValibot \/ CallXrpcToValibot \/ SafeParse \/ SafeParseXrpc

Spec == Init /\ [][Next]_vars

\* ------------------------------------------------------------- properties
\* The properties below speak of the last call of an entry point and of the
\* last value checked since.

Cx == Context(lexicon, options)

\* a value has been checked since the entry point returned
checked == lastParse.res # "none"
\* the def whose validator checked it
checkedDef == getDef(lexicon.defs, lastParse.name)
checkedData == checked /\ entry = "lexiconToValibot"

kindOf(schema) == IF schema.js = "object" /\ has(schema, "type") THEN schema.type ELSE ""

\* the outcome of checking value against schema in the resolver's current state
outcomeOf(schema, value) == run(schema, value, Cx, heap, 1).res
accepts(schema, value) == outcomeOf(schema, value) = "ok"

MaxOf(S) == IF S = {} THEN 0 ELSE CHOOSE m \in S : \A x \in S : x <= m

propertiesOf(schema) == IF has(schema, "properties") THEN schema.properties ELSE <<>>
requiredOf(schema) == IF has(schema, "required") THEN schema.required ELSE {}
nullableOf(schema) == IF has(schema, "nullable") THEN schema.nullable ELSE {}

\* the base validator B of a property: the dispatch of its schema
baseValidator(prop) == convertType(prop, Cx, heap, 1).v

\* The row of the required/nullable table for property i of an object schema
\* and an object value: a missing key passes iff the property is optional, a
\* value other than null passes iff B accepts it, and null passes iff the
\* property is nullable or, when nullByBase, B itself accepts null.
tableRow(schema, i, value, nullByBase) ==
    LET key == propertiesOf(schema)[i].key
        B == baseValidator(propertiesOf(schema)[i].prop)
    IN IF ~hasKey(value, key) THEN key \notin requiredOf(schema)
       ELSE IF getKey(value, key).t = "null"
       THEN key \in nullableOf(schema) \/ (nullByBase /\ accepts(B, NullV))
       ELSE accepts(B, getKey(value, key))

\* an object def's validator has checked an object and the check ended
objectChecked ==
    /\ checkedData
    /\ kindOf(checkedDef) = "object"
    /\ isObjectLike(lastParse.value)
    /\ lastParse.res # "throw"

\* C1, as the spec states it: an object is accepted iff every declared
\* property passes its row of the table, where null passes only for a
\* nullable property.
C1_TruthTableAsStated ==
    objectChecked =>
        (lastParse.res = "ok" <=>
            \A i \in 1..Len(propertiesOf(checkedDef)) :
                tableRow(checkedDef, i, lastParse.value, FALSE))

\* C1, corrected: an object is accepted iff every declared property passes
\* its row of the table: missing is accepted iff the property is optional, a
\* value B accepts is accepted, and null is accepted iff the property is
\* nullable or B itself accepts null (as the validator of an unknown does).
C1_TruthTable ==
    objectChecked =>
        (lastParse.res = "ok" <=>
            \A i \in 1..Len(propertiesOf(checkedDef)) :
                tableRow(checkedDef, i, lastParse.value, TRUE))

\* an object was accepted with a nullable property null, an optional property
\* missing and a required property present
C1_Witness ==
    /\ objectChecked
    /\ lastParse.res = "ok"
    /\ \E i \in 1..Len(propertiesOf(checkedDef)) :
           LET key == propertiesOf(checkedDef)[i].key
           IN /\ key \in nullableOf(checkedDef)
              /\ hasKey(lastParse.value, key)
              /\ getKey(lastParse.value, key).t = "null"
    /\ \E i \in 1..Len(propertiesOf(checkedDef)) :
           LET key == propertiesOf(checkedDef)[i].key
           IN key \notin requiredOf(checkedDef) /\ ~hasKey(lastParse.value, key)
    /\ \E i \in 1..Len(propertiesOf(checkedDef)) :
           LET key == propertiesOf(checkedDef)[i].key
           IN /\ key \in requiredOf(checkedDef)
              /\ hasKey(lastParse.value, key)
              /\ getKey(lastParse.value, key).t # "null"

\* the ref strings of the ref nodes and union branches in a schema node
RECURSIVE refsOf(_)
refsOfBody(schema, body) ==
    IF has(schema, body) /\ has(schema[body], "schema") THEN refsOf(schema[body].schema) ELSE {}
refsOf(schema) ==
    CASE kindOf(schema) = "ref" -> {schema.ref}
      [] kindOf(schema) = "union" -> {schema.refs[i] : i \in 1..Len(schema.refs)}
      [] kindOf(schema) = "array" -> refsOf(schema.items)
      [] kindOf(schema) = "object" ->
             UNION {refsOf(propertiesOf(schema)[i].prop) : i \in 1..Len(propertiesOf(schema))}
      [] kindOf(schema) = "record" -> refsOf(schema.record)
      [] kindOf(schema) \in {"query", "procedure", "subscription"} ->
             (IF has(schema, "parameters") THEN refsOf(schema.parameters) ELSE {})
             \cup refsOfBody(schema, "input") \cup refsOfBody(schema, "output")
             \cup refsOfBody(schema, "message")
      [] kindOf(schema) = "params" ->
             UNION {refsOf(propertiesOf(schema)[i].prop) : i \in 1..Len(propertiesOf(schema))}
      [] OTHER -> {}

\* the ref names a def of the document itself
isLocal(ref, doc) == ~isExternal(parseRef(normalizeRef(ref, doc.id))[1], doc.id)

\* the document has a local reference to a def it does not have
hasDanglingRef(doc) ==
    \E i \in 1..Len(doc.defs) : \E ref \in refsOf(doc.defs[i].def) :
        /\ isLocal(ref, doc)
        /\ ~hasDef(doc.defs, parseRef(normalizeRef(ref, doc.id))[2])

\* C2: a document with a local reference to a def that does not exist makes
\* the entry point throw "Ref not found" and return no map, and no check of a
\* value against returned validators raises that error.
C2_RefNotFoundAtConstruction ==
    /\ (entry # "none" /\ hasDanglingRef(lexicon)) =>
           (status = "threw" /\ error = "Ref not found")
    /\ lastParse.err # "Ref not found"

\* how deep the nodes of a schema nest below a def: the depth of the calls
\* its conversion makes
RECURSIVE nesting(_)
nestingOfBody(schema, body) ==
    IF has(schema, body) /\ has(schema[body], "schema") THEN nesting(schema[body].schema) ELSE 0
nesting(schema) ==
    CASE kindOf(schema) = "array" -> 1 + nesting(schema.items)
      [] kindOf(schema) \in {"object", "params"} ->
             1 + MaxOf({nesting(propertiesOf(schema)[i].prop) :
                            i \in 1..Len(propertiesOf(schema))})
      [] kindOf(schema) = "record" -> nesting(schema.record)
      [] kindOf(schema) \in {"query", "procedure", "subscription"} ->
             1 + MaxOf({IF has(schema, "parameters") THEN nesting(schema.parameters) - 1 ELSE 0,
                        nestingOfBody(schema, "input"), nestingOfBody(schema, "output"),
                        nestingOfBody(schema, "message")})
      [] OTHER -> 1

\* C3: a call of an entry point terminates for every document, also one whose
\* defs refer to themselves or to each other: it never exhausts the stack,
\* and its calls nest no deeper than the nodes of the document do.
C3_ConstructionTerminates ==
    entry # "none" =>
        /\ error # "RangeError"
        /\ buildDepth <= MaxOf({nesting(lexicon.defs[i].def) : i \in 1..Len(lexicon.defs)})

\* the entry point has returned the validators of a document whose refs form
\* cycles, every one of them on its own key
C3_Witness ==
    /\ entry = "lexiconToValibot"
    /\ status = "returned"
    /\ \E i \in 1..Len(lexicon.defs) :
           /\ kindOf(lexicon.defs[i].def) = "ref"
           /\ normalizeRef(lexicon.defs[i].def.ref, lexicon.id)
                  = lexicon.id \o <<HASH>> \o lexicon.defs[i].name
    /\ \E i \in 1..Len(lexicon.defs) :
           /\ kindOf(lexicon.defs[i].def) = "union"
           /\ LocalRef(lexicon.defs[i].name[1]) \in refsOf(lexicon.defs[i].def)
    /\ Len(result) = Len(lexicon.defs)

\* C4: the check of a value against a returned validator terminates with its
\* recursion bounded by the value: it does not recurse until the stack is
\* exhausted, whatever the cycles among the defs.
C4_CheckTerminates == lastParse.err # "RangeError"

\* C5, as the spec states it: any two resolutions of refs with the same
\* normalized key return the same validator instance.
C5_OneInstancePerKeyAsStated ==
    \A a, b \in heap.returned : a.key = b.key => a.id = b.id

\* C5, corrected: the cache holds at most one validator per key, and any two
\* resolutions of the same key that end in the cache, the registry or a local
\* def return the same instance, the one the cache holds; the accept-any
\* validator of an unresolved external ref is outside this.
C5_OneInstancePerKey ==
    /\ \A e1, e2 \in heap.cache : e1.key = e2.key => e1 = e2
    /\ \A a, b \in heap.returned :
           (a.key = b.key /\ a.how # "fallback" /\ b.how # "fallback") => a.id = b.id
    /\ \A a \in heap.returned :
           a.how # "fallback" =>
               (cacheHas(heap.cache, a.key) /\ cacheGet(heap.cache, a.key).id = a.id)

\* a key was resolved from a local def and then again from the cache, and a
\* second key was resolved too
C5_Witness ==
    \E a, b, c \in heap.returned :
        /\ a.key = b.key
        /\ a.how = "local"
        /\ b.how = "cache"
        /\ c.key # a.key
        /\ c.how # "fallback"

\* the ref is external and the registry has neither the ref string nor its
\* normalized key
isUnresolvedExternal(ref) ==
    /\ ~isLocal(ref, lexicon)
    /\ ~extHas(options.externalRefs, ref)
    /\ ~extHas(options.externalRefs, normalizeRef(ref, lexicon.id))

\* C6: a ref to another namespace that the registry has under neither its
\* ref string nor its normalized key does not stop the compilation, and the
\* validator of a def that is such a ref accepts every value.
C6_UnresolvedExternalAcceptsAny ==
    (checkedData /\ kindOf(checkedDef) = "ref" /\ isUnresolvedExternal(checkedDef.ref))
        => lastParse.res = "ok"

\* C7: no unresolved external reference is reported through the global log:
\* console.warn is never called, the diagnostics being returned by the entry
\* point.
C7_NoGlobalLog == heap.log = <<>>

\* the validator of the body of a record def, as convertObject builds it
recordBody(schema) == convertObject(schema.record, Cx, heap, 1).v

\* C8: under "wire" the validator returned for a record def accepts a value
\* iff its $type is the def's name (the document id for main, id#defName
\* otherwise) and the validator of the record body accepts it; under "sdk" it
\* accepts exactly what the validator of the record body accepts.
C8_WireTypeField ==
    (checkedData /\ kindOf(checkedDef) = "record" /\ lastParse.res # "throw") =>
        (lastParse.res = "ok" <=>
            /\ accepts(recordBody(checkedDef), lastParse.value)
            /\ options.format = "wire" =>
                   /\ isStringAt(lastParse.value, TYPEKEY)
                   /\ getKey(lastParse.value, TYPEKEY).s
                          = recordTypeName(lexicon.id, lastParse.name))

\* the outcome of branch j of a union, tried on the checked value
branchOutcome(schema, j) == outcomeOf(VLazy(schema.refs[j]), lastParse.value)

C10_OneRefUnionIsRef ==
    [][(/\ parses' = parses + 1
        /\ entry = "lexiconToValibot"
        /\ kindOf(getDef(lexicon.defs, lastParse'.name)) = "union"
        /\ Len(getDef(lexicon.defs, lastParse'.name).refs) = 1)
       => LET ref == getDef(lexicon.defs, lastParse'.name).refs[1]
              direct == convertRef(LexRef(ref), Cx, heap, 1)
              o == run(direct.v, lastParse'.value, Cx, heap, 1)
          IN /\ direct.ok
             /\ lastParse'.res = o.res
             /\ lastParse'.err = o.err
             /\ heap'.cache = o.st.cache
             /\ heap'.log = o.st.log]_vars

\* a union of one ref accepted a value when the cache already held the ref's
\* target
C10_Witness ==
    /\ checkedData
    /\ parses = 2
    /\ kindOf(checkedDef) = "union"
    /\ Len(checkedDef.refs) = 1
    /\ lastParse.res = "ok"
    /\ cacheHas(heap.cache, normalizeRef(checkedDef.refs[1], lexicon.id))

\* the members of a schema's enum as values of the checked kind
enumHolds(schema, value, V(_)) ==
    \E i \in 1..Len(schema.enum) : sameValue(value, V(schema.enum[i]))

\* an integer within the inclusive bounds the schema declares
integerInRange(schema, value) ==
    /\ value.t = "number"
    /\ ~value.frac
    /\ has(schema, "minimum") => value.n >= schema.minimum
    /\ has(schema, "maximum") => value.n <= schema.maximum

\* a schema has an enum with members (an enum without members is treated as
\* no enum)
hasEnum(schema) == has(schema, "enum") /\ Len(schema.enum) > 0

\* C11: the validator of an integer schema accepts exactly its const when it
\* has one, whatever enum, minimum or maximum it also has; otherwise, when it
\* has an enum, exactly the members of the enum; otherwise exactly the
\* integers within its inclusive minimum and maximum.
C11_IntegerPrecedence ==
    (checkedData /\ kindOf(checkedDef) = "integer") =>
        (lastParse.res = "ok" <=>
            IF has(checkedDef, "const")
            THEN sameValue(lastParse.value, NumV(checkedDef.const))
            ELSE IF hasEnum(checkedDef)
            THEN enumHolds(checkedDef, lastParse.value, NumV)
            ELSE integerInRange(checkedDef, lastParse.value))

\* the length of a string within the bounds the schema declares
lengthInRange(schema, value) ==
    /\ has(schema, "minLength") => Len(value.s) >= schema.minLength
    /\ has(schema, "maxLength") => Len(value.s) <= schema.maxLength

\* the validator compiled for the checked def
checkedValidator ==
    LET i == CHOOSE i \in 1..Len(result) : result[i].key = lastParse.name
    IN result[i].schema

\* how many checks of a pipe are format checks
formatChecks(schema) ==
    IF schema.k # "pipe" THEN 0
    ELSE Cardinality({i \in 1..Len(schema.checks) : schema.checks[i].c = "format"})

\* C12: the validator of a string schema accepts exactly its const when it
\* has one, whatever enum, minLength, maxLength or format it also has;
\* otherwise, when it has an enum, exactly the members of the enum; otherwise
\* exactly the strings within minLength and maxLength that match the format,
\* and the validator carries one format check when the schema has a format
\* and none when it has not.
C12_StringPrecedence ==
    (checkedData /\ kindOf(checkedDef) = "string") =>
        IF has(checkedDef, "const")
        THEN lastParse.res = "ok" <=> sameValue(lastParse.value, StrV(checkedDef.const))
        ELSE IF hasEnum(checkedDef)
        THEN lastParse.res = "ok" <=> enumHolds(checkedDef, lastParse.value, StrV)
        ELSE /\ lastParse.res = "ok" <=>
                    /\ lastParse.value.t = "string"
                    /\ lengthInRange(checkedDef, lastParse.value)
                    /\ has(checkedDef, "format") =>
                           formatMatches(checkedDef.format, lastParse.value.s)
             /\ formatChecks(checkedValidator) = IF has(checkedDef, "format") THEN 1 ELSE 0

XrpcKinds == {"query", "procedure", "subscription"}

\* the names of the document's defs that are, or are not, endpoints
namesOfKind(xrpc) ==
    {lexicon.defs[i].name : i \in {j \in 1..Len(lexicon.defs) :
                                    (kindOf(lexicon.defs[j].def) \in XrpcKinds) = xrpc}}

resultKeys == {result[i].key : i \in 1..Len(result)}

\* C13: the keys of the map lexiconToValibot returns are exactly the names of
\* the defs whose kind is not query, procedure or subscription, and the keys
\* of the map xrpcToValibot returns are exactly the names of the defs whose
\* kind is; the two key sets are disjoint and together are all def names.
C13_KeyPartition ==
    status = "returned" =>
        /\ resultKeys = namesOfKind(entry = "xrpcToValibot")
        /\ Len(result) = Cardinality(resultKeys)
        /\ namesOfKind(TRUE) \cap namesOfKind(FALSE) = {}
        /\ namesOfKind(TRUE) \cup namesOfKind(FALSE)
               = {lexicon.defs[i].name : i \in 1..Len(lexicon.defs)}

\* xrpcToValibot returned the three endpoints of a document that also has a
\* string def
C13_Witness ==
    /\ entry = "xrpcToValibot"
    /\ status = "returned"
    /\ Len(result) = 3
    /\ Len(lexicon.defs) = 4
    /\ \E i \in 1..Len(lexicon.defs) : kindOf(lexicon.defs[i].def) = "string"

\* the kinds of schema node
Kinds ==
    {"boolean", "integer", "string", "unknown", "bytes", "blob", "cid-link", "token",
     "array", "object", "ref", "union", "record", "params"} \cup XrpcKinds

\* the node is not an object, or its kind is none of the kinds
badNode(node) == kindOf(node) \notin Kinds

\* the node, or a node nested in it, is bad
RECURSIVE hasBadNode(_)
hasBadBody(schema, body) ==
    has(schema, body) /\ has(schema[body], "schema") /\ hasBadNode(schema[body].schema)
hasBadNode(schema) ==
    \/ badNode(schema)
    \/ CASE kindOf(schema) = "array" -> hasBadNode(schema.items)
          [] kindOf(schema) \in {"object", "params"} ->
                 \E i \in 1..Len(propertiesOf(schema)) : hasBadNode(propertiesOf(schema)[i].prop)
          [] kindOf(schema) = "record" -> hasBadNode(schema.record)
          [] kindOf(schema) \in XrpcKinds ->
                 \/ has(schema, "parameters") /\ hasBadNode(schema.parameters)
                 \/ hasBadBody(schema, "input")
                 \/ hasBadBody(schema, "output")
                 \/ hasBadBody(schema, "message")
          [] OTHER -> FALSE

\* the names of the defs that local refs lead to from the defs named in S, in
\* at most n steps
RECURSIVE reachedDefs(_, _)
reachedDefs(S, n) ==
    IF n = 0 THEN S
    ELSE reachedDefs(
             S \cup {parseRef(normalizeRef(ref, lexicon.id))[2] :
                        ref \in {r \in UNION {refsOf(getDef(lexicon.defs, name)) : name \in S} :
                                     /\ isLocal(r, lexicon)
                                     /\ hasDef(lexicon.defs, parseRef(normalizeRef(r, lexicon.id))[2])}},
             n - 1)

\* a def the entry point compiles has, or reaches through local refs, a bad node
reachesBadNode ==
    \E name \in reachedDefs(namesOfKind(entry = "xrpcToValibot"), Len(lexicon.defs)) :
        hasBadNode(getDef(lexicon.defs, name))

\* C14: when a def the entry point compiles, a node nested in it, or a node
\* it reaches through local refs is not an object or has an unrecognized
\* kind, the entry point throws and returns no map; no check of a value
\* against returned validators raises the error of such a node.
C14_BadNodeFailsAtConstruction ==
    /\ (entry # "none" /\ reachesBadNode) =>
           status = "threw" /\ error \in {"Invalid schema", "Unknown schema type"}
    /\ checked => lastParse.err \notin {"Invalid schema", "Unknown schema type"}

\* the value is an object with a field key whose value is of type t
fieldIs(value, key, t) ==
    /\ value.t = "object"
    /\ \E i \in 1..Len(value.f) : value.f[i].key = key /\ value.f[i].val.t = t

\* { $type: "blob", ref: { $link: string }, mimeType: string, size: number }
wireShape(value) ==
    /\ fieldIs(value, TYPEKEY, "string")
    /\ getKey(value, TYPEKEY) = StrV(BLOB)
    /\ fieldIs(value, REF, "object")
    /\ fieldIs(getKey(value, REF), LINK, "string")
    /\ fieldIs(value, MIMETYPE, "string")
    /\ fieldIs(value, SIZE, "number")

\* { cid: string, mimeType: string }
legacyShape(value) == fieldIs(value, CID, "string") /\ fieldIs(value, MIMETYPE, "string")

\* a value has been checked against the validator of a blob def
blobChecked(format) ==
    checkedData /\ kindOf(checkedDef) = "blob" /\ options.format = format

\* C15: under "wire" the validator of a blob accepts a value iff it has the
\* discriminated shape, $type "blob" with ref.$link and mimeType strings and
\* a numeric size, or the legacy shape, cid and mimeType strings; null,
\* strings and objects with only a mimeType are rejected.
C15_WireBlobShapes ==
    blobChecked("wire") =>
        (lastParse.res = "ok" <=> wireShape(lastParse.value) \/ legacyShape(lastParse.value))

\* a value of the discriminated shape without a cid was accepted under "wire"
C15_Witness ==
    /\ blobChecked("wire")
    /\ wireShape(lastParse.value)
    /\ ~legacyShape(lastParse.value)
    /\ lastParse.res = "ok"

\* C16: under "wire" the validator of a blob rejects a value whose $type is
\* "blob" but which has no ref and no size, such as
\* {cid: "x", mimeType: "x", $type: "blob"}, and accepts
\* {$type: "blob", ref: {$link: "x"}, mimeType: "x", size: 5}.
C16_WireBlobExamples ==
    blobChecked("wire") =>
        /\ (/\ fieldIs(lastParse.value, TYPEKEY, "string")
            /\ getKey(lastParse.value, TYPEKEY) = StrV(BLOB)
            /\ ~hasKey(lastParse.value, REF)
            /\ ~hasKey(lastParse.value, SIZE)) => lastParse.res = "fail"
        /\ lastParse.value = WireBlob => lastParse.res = "ok"

\* C17: under "sdk" the validator of a blob accepts every object with an
\* object-valued ref, a string mimeType and a numeric size, whether or not
\* it is an instance of BlobRef.
C17_SdkBlobStructural ==
    (/\ blobChecked("sdk")
     /\ fieldIs(lastParse.value, REF, "object")
     /\ fieldIs(lastParse.value, MIMETYPE, "string")
     /\ fieldIs(lastParse.value, SIZE, "number")) => lastParse.res = "ok"

\* a plain object with exactly the fields of the discriminated shape
plainWireShaped(value) ==
    /\ wireShape(value)
    /\ value.cls = "Object"
    /\ Len(value.f) = 4

paramsChecked == checked /\ entry = "xrpcToValibot" /\ lastParse.part = "parameters"

\* the parameters block of the checked endpoint
checkedParams ==
    IF has(checkedDef, "parameters") THEN checkedDef.parameters ELSE [js |-> "object"]

\* Parameter i of a parameters block and an object value: a missing
\* parameter passes iff it is not required, a value other than null passes
\* iff the validator B of the parameter's schema accepts it, and null passes
\* never or, when nullByBase, iff B itself accepts null.
paramRow(schema, i, value, nullByBase) ==
    LET key == propertiesOf(schema)[i].key
        B == baseValidator(propertiesOf(schema)[i].prop)
    IN IF ~hasKey(value, key) THEN key \notin requiredOf(schema)
       ELSE IF getKey(value, key).t = "null" THEN nullByBase /\ accepts(B, NullV)
       ELSE accepts(B, getKey(value, key))

\* C19, as the spec states it: the parameters validator accepts an object iff
\* every required parameter is present, every present parameter is accepted
\* by the validator of its schema, and no parameter is null, whether or not
\* the block lists it as nullable; without a parameters block, or without
\* properties in it, the empty parameter set is accepted.
C19_ParamsAsStated ==
    paramsChecked =>
        (lastParse.res = "ok" <=>
            /\ isObjectLike(lastParse.value)
            /\ \A i \in 1..Len(propertiesOf(checkedParams)) :
                   paramRow(checkedParams, i, lastParse.value, FALSE))

\* C19, corrected: the parameters validator accepts an object iff every
\* required parameter is present and every present parameter is accepted by
\* the validator of its schema alone: the nullable list of the block is
\* ignored, so null is rejected unless that validator itself accepts null
\* (as the validator of an unknown does); without a parameters block, or
\* without properties in it, the empty parameter set is accepted.
C19_ParamsRequiredOnly ==
    paramsChecked =>
        (lastParse.res = "ok" <=>
            /\ isObjectLike(lastParse.value)
            /\ \A i \in 1..Len(propertiesOf(checkedParams)) :
                   paramRow(checkedParams, i, lastParse.value, TRUE))

\* parameters were rejected only because a parameter the block lists as
\* nullable was null
C19_Witness ==
    /\ paramsChecked
    /\ lastParse.res = "fail"
    /\ isObjectLike(lastParse.value)
    /\ \E i \in 1..Len(propertiesOf(checkedParams)) :
           LET key == propertiesOf(checkedParams)[i].key
           IN /\ key \in nullableOf(checkedParams)
              /\ hasKey(lastParse.value, key)
              /\ getKey(lastParse.value, key).t = "null"
              /\ \A j \in 1..Len(propertiesOf(checkedParams)) :
                     j # i => paramRow(checkedParams, j, lastParse.value, TRUE)

\* the validators an endpoint of a kind has, in the order of their keys
partsOf(kind) ==
    CASE kind = "query" -> <<"parameters", "output">>
      [] kind = "procedure" -> <<"parameters", "input", "output">>
      [] kind = "subscription" -> <<"parameters", "message">>

\* the endpoint declares the body and the body declares a schema
declares(def, body) == has(def, body) /\ has(def[body], "schema")

\* C20: the map xrpcToValibot returns has for a query exactly the validators
\* parameters and output, for a procedure parameters, input and output, and
\* for a subscription parameters and message; the validator of a body is the
\* dispatch of the body's schema when the body declares one, and accepts
\* every value when the body or its schema is absent.
C20_EndpointBundles ==
    /\ (entry = "xrpcToValibot" /\ status = "returned") =>
           \A i \in 1..Len(result) :
               LET def == getDef(lexicon.defs, result[i].key)
                   vs == result[i].validators
               IN /\ [j \in 1..Len(vs) |-> vs[j].key] = partsOf(kindOf(def))
                  /\ \A j \in 2..Len(vs) :
                         IF declares(def, vs[j].key)
                         THEN vs[j].schema = convertType(def[vs[j].key].schema, Cx, heap, 1).v
                         ELSE \A value \in TestValues(lexicon) : accepts(vs[j].schema, value)
    /\ (/\ checked
        /\ entry = "xrpcToValibot"
        /\ lastParse.part # "parameters"
        /\ ~declares(checkedDef, lastParse.part)) => lastParse.res = "ok"

\* the output validator of a procedure that declares an input schema and no
\* output schema accepted a value
C20_Witness ==
    /\ checked
    /\ entry = "xrpcToValibot"
    /\ kindOf(checkedDef) = "procedure"
    /\ declares(checkedDef, "input")
    /\ ~declares(checkedDef, "output")
    /\ lastParse.part = "output"
    /\ lastParse.res = "ok"

\* the kinds of a node and of the nodes nested in it
RECURSIVE kindsIn(_)
kindsInBody(schema, body) ==
    IF has(schema, body) /\ has(schema[body], "schema") THEN kindsIn(schema[body].schema) ELSE {}
kindsIn(schema) ==
    {kindOf(schema)} \cup
    CASE kindOf(schema) = "array" -> kindsIn(schema.items)
      [] kindOf(schema) \in {"object", "params"} ->
             UNION {kindsIn(propertiesOf(schema)[i].prop) : i \in 1..Len(propertiesOf(schema))}
      [] kindOf(schema) = "record" -> kindsIn(schema.record)
      [] kindOf(schema) \in XrpcKinds ->
             (IF has(schema, "parameters") THEN kindsIn(schema.parameters) ELSE {})
             \cup kindsInBody(schema, "input") \cup kindsInBody(schema, "output")
             \cup kindsInBody(schema, "message")
      [] OTHER -> {}

\* the document has no blob node and no record def
formatFree(doc) ==
    \A i \in 1..Len(doc.defs) : kindsIn(doc.defs[i].def) \cap {"blob", "record"} = {}

otherFormat(opts) == [opts EXCEPT !.format = IF @ = "sdk" THEN "wire" ELSE "sdk"]

\* the call of the entry point named name
callOf(name, doc, opts) ==
    IF name = "xrpcToValibot" THEN xrpcToValibot(doc, opts) ELSE lexiconToValibot(doc, opts)

\* the validator a returned map has under the key name (and, for an
\* endpoint, the part)
validatorAt(map, name, part) ==
    LET i == CHOOSE i \in 1..Len(map) : map[i].key = name
    IN IF part = "" THEN map[i].schema
       ELSE map[i].validators[CHOOSE j \in 1..Len(map[i].validators) :
                                  map[i].validators[j].key = part].schema

\* C21: for a document with no blob node and no record def, an entry point
\* called with format "sdk" and with format "wire" ends alike and returns the
\* same validators, and every check of a value against a returned validator
\* ends under the other format as it ends under this one, with the same
\* outcome, error and cache.
C21_FormatOnlyBlobAndRecord ==
    /\ []((entry # "none" /\ formatFree(lexicon)) =>
              \A other \in {callOf(entry, lexicon, otherFormat(options))} :
                  /\ other.ok = (status = "returned")
                  /\ other.err = error
                  /\ other.ok => other.v = result)
    /\ [][(parses' = parses + 1 /\ formatFree(lexicon)) =>
              \A schema \in {validatorAt(result, lastParse'.name, lastParse'.part)} :
                  \A o \in {run(schema, lastParse'.value,
                                 Context(lexicon, otherFormat(options)), heap, 1)} :
                      /\ o.res = lastParse'.res
                      /\ o.err = lastParse'.err
                      /\ o.st.cache = heap'.cache]_vars

\* a validator compiled under "wire" from a document with object defs and no
\* blob node or record def accepted an object
C21_Witness ==
    /\ checked
    /\ formatFree(lexicon)
    /\ options.format = "wire"
    /\ \E i \in 1..Len(lexicon.defs) : kindOf(lexicon.defs[i].def) = "object"
    /\ lastParse.value.t = "object"
    /\ lastParse.res = "ok"

\* ------------------------------------------- two compilations side by side
\* A second specification follows two entry-point calls whose validators are
\* both alive, and the checks made with them in any order.  Each call runs
\* `const cache = new Map()` and hands that Map to its resolver; maps holds
\* every Map allocated, and a compilation holds the address of its own.  Beside
\* each compilation the specification keeps the state it would have had if it
\* had run alone (alone), which no step of the other compilation touches.

\* the documents and options of the two compilations
SideDocs == {DocExt, DocXrpc}
SideOptions == [format : {"sdk"}, externalRefs : {{}, bareRefs}]

\* how many values have been checked against the validators of the two
sideParses == IF Len(calls) = 2 THEN calls[1].parses + calls[2].parses
              ELSE IF Len(calls) = 1 THEN calls[1].parses ELSE 0

\* a cache that is a module-level Map instead of one made by the call
moduleMap(store) == 1
\* new Map(): a Map no one else holds
newMap(store) == Len(store) + 1

\* an entry point returned to a caller who keeps its validators
Compiled(name, doc, opts, c) ==
    /\ Len(calls) < 2
    /\ c.ok
    /\ \E cache \in {newMap(maps)} :
           /\ maps' = IF cache > Len(maps) THEN Append(maps, c.st.cache) ELSE maps
           /\ calls' = Append(calls,
                  [alone |-> [c.st EXCEPT !.maxd = 0], cache |-> cache, entry |-> name,
                   lexicon |-> doc, options |-> opts, parses |-> 0, result |-> c.v,
                   st |-> [c.st EXCEPT !.maxd = 0]])
    /\ UNCHANGED lastCheck
    /\ UNCHANGED one

SideLexiconToValibot ==
    \E doc \in SideDocs, opts \in SideOptions :
        Compiled("lexiconToValibot", doc, opts, lexiconToValibot(doc, opts))

SideXrpcToValibot ==
    \E doc \in SideDocs, opts \in SideOptions :
        Compiled("xrpcToValibot", doc, opts, xrpcToValibot(doc, opts))

\* a check with a validator of compilation c: its resolver works on the Map
\* the compilation holds
SideParsed(c, name, part, value, schema) ==
    /\ \E r \in {run(schema, value, Context(calls[c].lexicon, calls[c].options),
                      [calls[c].st EXCEPT !.cache = maps[calls[c].cache]], 1)},
          a \in {run(schema, value, Context(calls[c].lexicon, calls[c].options),
                      calls[c].alone, 1)} :
           /\ maps' = [maps EXCEPT ![calls[c].cache] = r.st.cache]
           /\ calls' = [calls EXCEPT ![c] =
                  [@ EXCEPT !.alone = [a.st EXCEPT !.maxd = 0],
                            !.parses = @ + 1,
                            !.st = [r.st EXCEPT !.maxd = 0]]]
           /\ lastCheck' = [alone |-> a.res, call |-> c, err |-> r.err, name |-> name,
                            part |-> part, res |-> r.res, value |-> value]
    /\ UNCHANGED one

SideSafeParse ==
    \E c \in 1..Len(calls) :
        /\ calls[c].entry = "lexiconToValibot"
        /\ sideParses < MaxParses
        /\ \E i \in 1..Len(calls[c].result), value \in TestValues(calls[c].lexicon) :
               SideParsed(c, calls[c].result[i].key, "", value, calls[c].result[i].schema)

SideSafeParseXrpc ==
    \E c \in 1..Len(calls) :
        /\ calls[c].entry = "xrpcToValibot"
        /\ sideParses < MaxParses
        /\ \E i \in 1..Len(calls[c].result), value \in TestValues(calls[c].lexicon) :
               \E j \in 1..Len(calls[c].result[i].validators) :
                   SideParsed(c, calls[c].result[i].key,
                              calls[c].result[i].validators[j].key, value,
                              calls[c].result[i].validators[j].schema)

SideNext ==
    SideLexiconToValibot \/ SideXrpcToValibot \/ SideSafeParse \/ SideSafeParseXrpc

SideSpec == Init /\ [][SideNext]_vars

\* C22: two compilations never share a cache: each holds a Map of its own,
\* at every moment of every interleaving of their checks the Map of each holds
\* exactly the entries it would hold had the compilation run alone (its
\* resolver state is the one it would have alone), and every check ends as
\* it would have ended alone.
C22_NoSharedCache ==
    /\ \A c, d \in 1..Len(calls) : c # d => calls[c].cache # calls[d].cache
    /\ \A c \in 1..Len(calls) :
           /\ maps[calls[c].cache] = calls[c].alone.cache
           /\ calls[c].st = calls[c].alone
    /\ lastCheck.res = lastCheck.alone

\* the first compilation has cached the registry's validator under "o#main";
\* the second, of the same document without a registry, then resolved
\* "o#main" on its own and accepted a string the cached validator rejects
C22_Witness ==
    /\ Len(calls) = 2
    /\ calls[1].lexicon = calls[2].lexicon
    /\ cacheHas(maps[calls[1].cache], <<"o", HASH, "m", "a", "i", "n">>)
    /\ calls[2].options.externalRefs = {}
    /\ lastCheck.call = 2
    /\ lastCheck.name = K("g")
    /\ lastCheck.value = X
    /\ lastCheck.res = "ok"

\* C23: once an entry point has returned, a check of a value resolves no
\* ref (the resolver returns nothing new), adds no entry to the cache and
\* leaves the returned validators as they are.
C23_ChecksResolveNothing ==
    [][parses' = parses + 1 =>
           /\ heap'.returned = heap.returned
           /\ heap'.cache = heap.cache
           /\ result' = result]_vars

\* the ref strings in the defs of a document
docRefs(doc) == UNION {refsOf(doc.defs[i].def) : i \in 1..Len(doc.defs)}

\* externalRefs[ref] || externalRefs[resolvedRef]
registryEntry(externalRefs, ref, key) ==
    IF extHas(externalRefs, ref) THEN extGet(externalRefs, ref) ELSE extGet(externalRefs, key)

\* C24: whenever the cache has no entry for the normalized key of a ref and
\* the registry has an entry under the ref string or under the normalized key,
\* the resolver returns the registry's validator (the one under the ref
\* string when both exist) and caches it under the normalized key, whether or
\* not the document has a def of that name; and a check of a value against a
\* def that is such a ref ends as the registry's validator ends on it.
C24_RegistryBeforeLocal ==
    /\ [](\A ref \in docRefs(lexicon) :
             \A key \in {normalizeRef(ref, lexicon.id)} :
                 (/\ ~cacheHas(heap.cache, key)
                  /\ extHas(options.externalRefs, ref) \/ extHas(options.externalRefs, key))
                 => \A e \in {registryEntry(options.externalRefs, ref, key)},
                       r \in {resolveRef(ref, Cx, heap, 1)} :
                        /\ r.ok
                        /\ r.inst = e
                        /\ r.st.cache = heap.cache \cup {[inst |-> e, key |-> key]})
    /\ [][(/\ parses' = parses + 1
            /\ entry = "lexiconToValibot"
            /\ kindOf(getDef(lexicon.defs, lastParse'.name)) = "ref")
           => \A ref \in {getDef(lexicon.defs, lastParse'.name).ref} :
                  \A key \in {normalizeRef(ref, lexicon.id)} :
                      (/\ ~cacheHas(heap.cache, key)
                       /\ extHas(options.externalRefs, ref) \/ extHas(options.externalRefs, key))
                      => \A e \in {registryEntry(options.externalRefs, ref, key)} :
                             /\ [inst |-> e, key |-> key] \in heap'.cache
                             /\ lastParse'.res =
                                    run(e.schema, lastParse'.value, Cx, heap, 1).res]_vars

\* a def that is the ref "#s" was checked in a document that has a def s, with
\* a registry that has one validator under "#s" and another under "a#s"; the
\* resolver returned the one under "#s", which is now cached under "a#s"
C24_Witness ==
    /\ checkedData
    /\ kindOf(checkedDef) = "ref"
    /\ checkedDef.ref = <<HASH, "s">>
    /\ hasDef(lexicon.defs, K("s"))
    /\ extHas(options.externalRefs, <<HASH, "s">>)
    /\ extHas(options.externalRefs, <<"a", HASH, "s">>)
    /\ extGet(options.externalRefs, <<HASH, "s">>) # extGet(options.externalRefs, <<"a", HASH, "s">>)
    /\ \E a \in heap.returned : a.how = "registry" /\ a.key = <<"a", HASH, "s">>
    /\ cacheGet(heap.cache, <<"a", HASH, "s">>) = extGet(options.externalRefs, <<HASH, "s">>)

\* C25: the validator of an object schema with no properties field accepts a
\* value iff the value is an object that carries no property.
C25_NoPropertiesOnlyEmpty ==
    (checkedData /\ kindOf(checkedDef) = "object" /\ ~has(checkedDef, "properties"))
        => (lastParse.res = "ok"
                <=> (lastParse.value.t = "object" /\ fieldsOf(lastParse.value) = <<>>))

\* C26: in every state of the resolver a ref string and its normalized key
\* ("ns" and "ns#main", "#n" and "<id>#n") resolve to the same validator, and
\* a ref whose namespace is the document's id never ends in the accept-any
\* fallback: when the document has no def of that name it ends in "Ref not
\* found".
C26_RefGrammar ==
    \A ref \in docRefs(lexicon) :
        \A key \in {normalizeRef(ref, lexicon.id)} :
            \A r \in {resolveRef(ref, Cx, heap, 1)}, q \in {resolveRef(key, Cx, heap, 1)} :
                /\ r.ok = q.ok
                /\ r.err = q.err
                /\ r.inst = q.inst
                /\ isLocal(ref, lexicon) => r.st.log = heap.log
                /\ (/\ isLocal(ref, lexicon)
                    /\ ~hasDef(lexicon.defs, parseRef(key)[2])
                    /\ ~extHas(options.externalRefs, ref)
                    /\ ~extHas(options.externalRefs, key))
                   => (~r.ok /\ r.err = "Ref not found")

\* C27: within one compilation the validator a ref string resolves to is the
\* same before and after any check, whatever refs that check resolved.
C27_OrderIndependent ==
    [][parses' = parses + 1 =>
           \A ref \in docRefs(lexicon) :
               \A before \in {resolveRef(ref, Cx, heap, 1)},
                  after \in {resolveRef(ref, Cx, heap', 1)} :
                   /\ before.ok = after.ok
                   /\ before.inst.schema = after.inst.schema]_vars

\* the def named name is a ref "#D" (or "<id>#D") to the def D of the same
\* document, and the registry has no entry for it
refersTo(name, D) ==
    /\ kindOf(getDef(lexicon.defs, name)) = "ref"
    /\ normalizeRef(getDef(lexicon.defs, name).ref, lexicon.id) = lexicon.id \o <<HASH>> \o D
    /\ ~extHas(options.externalRefs, getDef(lexicon.defs, name).ref)
    /\ ~extHas(options.externalRefs, lexicon.id \o <<HASH>> \o D)

\* C28: the validator lexiconToValibot returns under the key D and the
\* validator of a def that is a ref to D accept the same values, under both
\* formats.
C28_SameThroughRef ==
    (entry = "lexiconToValibot" /\ status = "returned") =>
        \A i, j \in 1..Len(result) :
            refersTo(result[j].key, result[i].key) =>
                \A value \in TestValues(lexicon) :
                    outcomeOf(result[i].schema, value) = outcomeOf(result[j].schema, value)

\* C29: under "wire" the validator returned for a record def, whatever its
\* body declares, accepts no value whose $type is not the def's fully
\* qualified name.
C29_TypeLiteralNotOverridden ==
    (checkedData /\ options.format = "wire" /\ kindOf(checkedDef) = "record"
        /\ lastParse.res = "ok")
    => /\ isStringAt(lastParse.value, TYPEKEY)
       /\ getKey(lastParse.value, TYPEKEY).s = recordTypeName(lexicon.id, lastParse.name)

\* "ns#name" with a namespace and a def name
fullyQualified(key) ==
    /\ includes(key, HASH)
    /\ parseRef(key)[1] # <<>>
    /\ parseRef(key)[2] # <<>>

\* C30: the cache holds one entry for a key and every key is fully
\* qualified; no resolution of a ref of the document, and no check of a
\* value, replaces or removes an entry the cache holds.
C30_CacheWriteOnce ==
    /\ [](/\ \A e \in heap.cache : fullyQualified(e.key)
          /\ \A e1, e2 \in heap.cache : e1.key = e2.key => e1 = e2
          /\ \A ref \in docRefs(lexicon) :
                 heap.cache \subseteq resolveRef(ref, Cx, heap, 1).st.cache)
    /\ [][parses' = parses + 1 => heap.cache \subseteq heap'.cache]_vars

\* a second check was made with a cache that had entries: it resolved a ref
\* from the cache and the cache holds two entries or more
C30_Witness ==
    /\ parses = 2
    /\ Cardinality(heap.cache) >= 2
    /\ \E a \in heap.returned : a.how = "cache"

====
